---- MODULE Spec2Model ----
(***************************************************************************)
(* The aggregate-call extractor and the post-aggregate rewriter of the     *)
(* DistSQL physical planner (pkg/sql/distsql_aggregator_visitors.go),      *)
(* modelled at the granularity of the visitor callbacks: one action per    *)
(* VisitPre / VisitPost call and one per statement group of                *)
(* extractAggExprs / extractPostAggrExprs.  Every planner goroutine p owns *)
(* its render list and the locals of the call it is making.                *)
(***************************************************************************)
EXTENDS Integers, Sequences, FiniteSets, TLC

\* Total number of nodes (a marker counts as one) of a render list.
MaxNodes == 4

\* Planner goroutines; SeqProcs are the ones that run under Spec.
Procs == {1, 2}
SeqProcs == {1}

-----------------------------------------------------------------------------
(* Expression nodes (package parser, and aggregateFuncHolder of package sql) *)

Nil == [kind |-> "nil"]

NumVal(v) == [kind |-> "NumVal", val |-> v]

IndexedVar(i) == [kind |-> "IndexedVar", Idx |-> i]

BinaryExpr(op, l, r) == [kind |-> "BinaryExpr", Operator |-> op, Left |-> l, Right |-> r]

\* Func is the text of the function reference, a sequence of characters;
\* Type is "" or "DISTINCT".
FuncExpr(name, type, args) == [kind |-> "FuncExpr", Func |-> name, Type |-> type, Exprs |-> args]

DistinctFuncType == "DISTINCT"

aggregateFuncHolder(e) == [kind |-> "aggregateFuncHolder", expr |-> e]

NewOrdinalReference(r) == IndexedVar(r)

IsHolder(e) == e.kind = "aggregateFuncHolder"

-----------------------------------------------------------------------------
(* strings.ToUpper and the generated name -> value map of the enumeration   *)

LowerLetters == <<"a","b","c","d","e","f","g","h","i","j","k","l","m",
                  "n","o","p","q","r","s","t","u","v","w","x","y","z">>
UpperLetters == <<"A","B","C","D","E","F","G","H","I","J","K","L","M",
                  "N","O","P","Q","R","S","T","U","V","W","X","Y","Z">>

ToUpperChar(c) ==
    IF \E i \in 1..Len(LowerLetters) : LowerLetters[i] = c
    THEN UpperLetters[CHOOSE i \in 1..Len(LowerLetters) : LowerLetters[i] = c]
    ELSE c

\* Mutant: the name is looked up as written.
ToUpperIdentity(s) == s

ToUpper(s) == [i \in 1..Len(s) |-> ToUpperChar(s[i])]

AggregatorSpec_IDENT == 0

AggregatorSpec_Func_value ==
    (<<"A","V","G">> :> 1) @@ (<<"C","O","U","N","T">> :> 5) @@
    (<<"M","A","X">> :> 7) @@ (<<"M","I","N">> :> 8) @@ (<<"S","U","M">> :> 10)

\* A Go map read: the value type's zero value when the key is absent.
MapIndex(m, k) == IF k \in DOMAIN m THEN m[k] ELSE 0

\* uint32(i) of a slice index i: the index is below 2^31 for every slice the
\* model builds, so the conversion keeps its value.
Uint32(i) == i

AggregatorSpec_Expr(func, distinct) == [Func |-> func, Distinct |-> distinct, ColIdx |-> 0]

-----------------------------------------------------------------------------
(* parser.WalkExpr as an explicit stack of frames.  A frame holds the node, *)
(* the children already walked, and whether VisitPre or VisitPost is due.   *)

Frame(e) == [expr |-> e, kids |-> <<>>, phase |-> "pre"]

\* The operands Expr.Walk hands to WalkExpr.  aggregateFuncHolder.Walk
\* returns the holder itself: nothing below a holder is walked.
Children(e) ==
    CASE e.kind = "BinaryExpr" -> <<e.Left, e.Right>>
      [] e.kind = "FuncExpr"   -> e.Exprs
      [] OTHER                 -> <<>>

\* Expr.Walk's result: a copy of the node holding the walked operands.
Rebuild(e, kids) ==
    CASE e.kind = "BinaryExpr" -> [e EXCEPT !.Left = kids[1], !.Right = kids[2]]
      [] e.kind = "FuncExpr"   -> [e EXCEPT !.Exprs = kids]
      [] OTHER                 -> e

Top(s) == s[Len(s)]
Pop(s) == SubSeq(s, 1, Len(s) - 1)
SetTop(s, f) == [s EXCEPT ![Len(s)] = f]

\* WalkExpr returns e to the frame below: the walk is over when there is
\* none, else the parent goes on to its next operand or to its VisitPost.
Deliver(s, e) ==
    IF s = <<>> THEN [stack |-> <<>>, result |-> e]
    ELSE LET t  == Top(s)
             ks == Append(t.kids, e)
             cs == Children(t.expr)
         IN IF Len(ks) < Len(cs)
            THEN [stack  |-> Append(SetTop(s, [t EXCEPT !.kids = ks]), Frame(cs[Len(ks) + 1])),
                  result |-> Nil]
            ELSE [stack  |-> SetTop(s, [expr |-> Rebuild(t.expr, ks), kids |-> ks, phase |-> "post"]),
                  result |-> Nil]

\* WalkExpr after VisitPre returned (recurse, newExpr) for the top frame.
AfterVisitPre(s, recurse, newExpr) ==
    IF ~recurse THEN Deliver(Pop(s), newExpr)
    ELSE IF Children(newExpr) = <<>>
         THEN [stack |-> SetTop(s, [expr |-> newExpr, kids |-> <<>>, phase |-> "post"]), result |-> Nil]
         ELSE [stack  |-> Append(SetTop(s, [expr |-> newExpr, kids |-> <<>>, phase |-> "walk"]),
                                 Frame(Children(newExpr)[1])),
               result |-> Nil]

\* WalkExpr after VisitPost returned newExpr for the top frame.
AfterVisitPost(s, newExpr) == Deliver(Pop(s), newExpr)

-----------------------------------------------------------------------------
(* Render lists the logical planner can hand over: every aggregate call and *)
(* every grouping column is wrapped in one holder, holders do not nest, and *)
(* no IndexedVar stands outside a holder.                                   *)

Name_count == <<"c","o","u","n","t">>
Name_Sum   == <<"S","u","m">>
Name_bogus == <<"b","o","g","u","s">>
Name_abs   == <<"a","b","s">>

ColK == IndexedVar(0)
ColV == IndexedVar(1)

Holders ==
    { aggregateFuncHolder(FuncExpr(Name_count, "", <<ColK>>)),
      aggregateFuncHolder(FuncExpr(Name_Sum, "DISTINCT", <<BinaryExpr("+", ColK, ColV)>>)),
      aggregateFuncHolder(FuncExpr(Name_bogus, "DISTINCT", <<ColV>>)),
      aggregateFuncHolder(BinaryExpr("+", ColK, ColV)) }

Leaves == Holders \cup {NumVal(1)}

RECURSIVE ExprsOfSize(_)
ExprsOfSize(n) ==
    IF n = 1 THEN Leaves
    ELSE { FuncExpr(Name_abs, "", <<a>>) : a \in ExprsOfSize(n - 1) }
         \cup UNION { { BinaryExpr("+", a, b) : a \in ExprsOfSize(i), b \in ExprsOfSize(n - 1 - i) }
                      : i \in 1..(n - 2) }

RECURSIVE RendersOfSize(_)
RendersOfSize(w) ==
    IF w = 0 THEN {<<>>}
    ELSE UNION { { <<e>> \o r : e \in ExprsOfSize(i), r \in RendersOfSize(w - i) } : i \in 1..w }

RenderLists == UNION { RendersOfSize(w) : w \in 0..MaxNodes }

\* The render lists of the concurrent runs.
ConcRenders ==
    LET count == aggregateFuncHolder(FuncExpr(Name_count, "", <<ColK>>))
        sum   == aggregateFuncHolder(FuncExpr(Name_Sum, "DISTINCT", <<BinaryExpr("+", ColK, ColV)>>))
        ident == aggregateFuncHolder(BinaryExpr("+", ColK, ColV))
    IN { <<count, sum, ident>>,
         <<BinaryExpr("+", count, sum)>>,
         <<ident, BinaryExpr("+", count, NumVal(1))>> }

-----------------------------------------------------------------------------
VARIABLES
    render,     \* render[p]: the render list goroutine p plans
    pc,         \* pc[p]: where p is
    aggV,       \* aggV[p]: v of extractAggExprs (an aggExprVisitor)
    recv,       \* recv[p]: the receiver of aggExprVisitor.extract, a copy of v
    postV,      \* postV[p]: v of extractPostAggrExprs (a postAggExprVisitor)
    idx,        \* idx[p]: position of the range loop over render, from 1
    stack,      \* stack[p]: the frames of the WalkExpr in progress
    result,     \* result[p]: what the finished WalkExpr returned, else Nil
    aggExprs,   \* aggExprs[p]: the named result of extractAggExprs
    evalExprs,  \* evalExprs[p], needEval[p]: the named results of extractPostAggrExprs
    needEval,
    aggOut,     \* aggOut[p]: what p's latest extractAggExprs call returned
    postOut     \* postOut[p]: what p's latest extractPostAggrExprs call returned

vars == <<render, pc, aggV, recv, postV, idx, stack, result, aggExprs, evalExprs,
          needEval, aggOut, postOut>>

NoOut == [set |-> FALSE]

InitLocals ==
    /\ pc = [p \in Procs |-> "idle"]
    /\ aggV = [p \in Procs |-> [exprs |-> <<>>]]
    /\ recv = [p \in Procs |-> [exprs |-> <<>>]]
    /\ postV = [p \in Procs |-> [count |-> 0]]
    /\ idx = [p \in Procs |-> 0]
    /\ stack = [p \in Procs |-> <<>>]
    /\ result = [p \in Procs |-> Nil]
    /\ aggExprs = [p \in Procs |-> <<>>]
    /\ evalExprs = [p \in Procs |-> <<>>]
    /\ needEval = [p \in Procs |-> FALSE]
    /\ aggOut = [p \in Procs |-> NoOut]
    /\ postOut = [p \in Procs |-> NoOut]

Init ==
    /\ \E r \in RenderLists : render = [p \in Procs |-> IF p \in SeqProcs THEN r ELSE <<>>]
    /\ InitLocals

InitConc ==
    /\ render \in [Procs -> ConcRenders]
    /\ InitLocals

-----------------------------------------------------------------------------
(* extractAggExprs *)

CallExtractAggExprs(p) ==
    /\ pc[p] = "idle"
    /\ aggV' = [aggV EXCEPT ![p] = [exprs |-> <<>>]]
    /\ aggExprs' = [aggExprs EXCEPT ![p] = <<>>]
    /\ idx' = [idx EXCEPT ![p] = 1]
    /\ pc' = [pc EXCEPT ![p] = "aggLoop"]
    /\ UNCHANGED <<render, recv, postV, stack, result, evalExprs, needEval, aggOut, postOut>>

\* v.extract(expr): the value receiver is a copy of v; WalkExprConst starts.
AggExtract(p) ==
    /\ pc[p] = "aggLoop"
    /\ idx[p] <= Len(render[p])
    /\ recv' = [recv EXCEPT ![p] = aggV[p]]
    /\ stack' = [stack EXCEPT ![p] = <<Frame(render[p][idx[p]])>>]
    /\ result' = [result EXCEPT ![p] = Nil]
    /\ pc' = [pc EXCEPT ![p] = "aggWalk"]
    /\ UNCHANGED <<render, aggV, postV, idx, aggExprs, evalExprs, needEval, aggOut, postOut>>

\* Mutant: a call whose name the map does not hold emits no entry.
AggVisitPreSkipUnknown(exprs, expr) ==
    IF ~IsHolder(expr)
    THEN [recurse |-> TRUE, newExpr |-> expr, exprs |-> exprs]
    ELSE IF expr.expr.kind # "FuncExpr"
         THEN [recurse |-> FALSE, newExpr |-> expr,
               exprs |-> Append(exprs, AggregatorSpec_Expr(AggregatorSpec_IDENT, FALSE))]
         ELSE IF ToUpper(expr.expr.Func) \notin DOMAIN AggregatorSpec_Func_value
              THEN [recurse |-> FALSE, newExpr |-> expr, exprs |-> exprs]
              ELSE [recurse |-> FALSE, newExpr |-> expr,
                    exprs |-> Append(exprs,
                        AggregatorSpec_Expr(AggregatorSpec_Func_value[ToUpper(expr.expr.Func)],
                                            expr.expr.Type = DistinctFuncType))]

\* Mutant: only a holder of a function call is the base case; any other
\* holder is recursed into like a plain node.
AggVisitPreFuncOnly(exprs, expr) ==
    IF ~IsHolder(expr) \/ expr.expr.kind # "FuncExpr"
    THEN [recurse |-> TRUE, newExpr |-> expr, exprs |-> exprs]
    ELSE [recurse |-> FALSE, newExpr |-> expr,
          exprs |-> Append(exprs,
              AggregatorSpec_Expr(MapIndex(AggregatorSpec_Func_value, ToUpper(expr.expr.Func)),
                                  expr.expr.Type = DistinctFuncType))]

\* aggExprVisitor.VisitPre: [recurse, newExpr, exprs] for the visitor's exprs.
AggVisitPreOf(exprs, expr) ==
    IF ~IsHolder(expr)
    THEN [recurse |-> TRUE, newExpr |-> expr, exprs |-> exprs]
    ELSE IF expr.expr.kind # "FuncExpr"
         THEN [recurse |-> FALSE, newExpr |-> expr,
               exprs |-> Append(exprs, AggregatorSpec_Expr(AggregatorSpec_IDENT, FALSE))]
         ELSE [recurse |-> FALSE, newExpr |-> expr,
               exprs |-> Append(exprs,
                   AggregatorSpec_Expr(MapIndex(AggregatorSpec_Func_value, ToUpper(expr.expr.Func)),
                                       expr.expr.Type = DistinctFuncType))]

AggVisitPre(p) ==
    /\ pc[p] = "aggWalk"
    /\ stack[p] # <<>>
    /\ Top(stack[p]).phase = "pre"
    /\ LET r == AggVisitPreOf(recv[p].exprs, Top(stack[p]).expr)
           w == AfterVisitPre(stack[p], r.recurse, r.newExpr)
       IN /\ recv' = [recv EXCEPT ![p].exprs = r.exprs]
          /\ stack' = [stack EXCEPT ![p] = w.stack]
          /\ result' = [result EXCEPT ![p] = w.result]
    /\ UNCHANGED <<render, pc, aggV, postV, idx, aggExprs, evalExprs, needEval, aggOut, postOut>>

AggVisitPost(p) ==
    /\ pc[p] = "aggWalk"
    /\ stack[p] # <<>>
    /\ Top(stack[p]).phase = "post"
    /\ LET w == AfterVisitPost(stack[p], Top(stack[p]).expr)
       IN /\ stack' = [stack EXCEPT ![p] = w.stack]
          /\ result' = [result EXCEPT ![p] = w.result]
    /\ UNCHANGED <<render, pc, aggV, recv, postV, idx, aggExprs, evalExprs, needEval, aggOut, postOut>>

\* Mutant: extract has a pointer receiver, so what one render expression
\* appended to v.exprs is still there for the next one.
AggExtractReturnPointerReceiver(p) ==
    /\ pc[p] = "aggWalk"
    /\ stack[p] = <<>>
    /\ aggExprs' = [aggExprs EXCEPT ![p] = aggExprs[p] \o recv[p].exprs]
    /\ aggV' = [aggV EXCEPT ![p] = recv[p]]
    /\ idx' = [idx EXCEPT ![p] = idx[p] + 1]
    /\ pc' = [pc EXCEPT ![p] = "aggLoop"]
    /\ result' = [result EXCEPT ![p] = Nil]
    /\ UNCHANGED <<render, recv, postV, stack, evalExprs, needEval, aggOut, postOut>>

\* WalkExprConst panics when the walk changed the expression; extract returns
\* the receiver's exprs, which the loop body appends to aggExprs.
AggExtractReturn(p) ==
    /\ pc[p] = "aggWalk"
    /\ stack[p] = <<>>
    /\ IF result[p] # render[p][idx[p]]
       THEN /\ pc' = [pc EXCEPT ![p] = "panic"]
            /\ UNCHANGED <<aggExprs, idx>>
       ELSE /\ aggExprs' = [aggExprs EXCEPT ![p] = aggExprs[p] \o recv[p].exprs]
            /\ idx' = [idx EXCEPT ![p] = idx[p] + 1]
            /\ pc' = [pc EXCEPT ![p] = "aggLoop"]
    /\ result' = [result EXCEPT ![p] = Nil]
    /\ UNCHANGED <<render, aggV, recv, postV, stack, evalExprs, needEval, aggOut, postOut>>

\* for i := range aggExprs { aggExprs[i].ColIdx = uint32(i) }
AggStamp(p) ==
    /\ pc[p] = "aggLoop"
    /\ idx[p] > Len(render[p])
    /\ aggExprs' = [aggExprs EXCEPT ![p] =
           [i \in 1..Len(aggExprs[p]) |-> [aggExprs[p][i] EXCEPT !.ColIdx = Uint32(i - 1)]]]
    /\ pc' = [pc EXCEPT ![p] = "aggRet"]
    /\ UNCHANGED <<render, aggV, recv, postV, idx, stack, result, evalExprs, needEval, aggOut, postOut>>

AggReturn(p) ==
    /\ pc[p] = "aggRet"
    /\ aggOut' = [aggOut EXCEPT ![p] = [set |-> TRUE, aggExprs |-> aggExprs[p]]]
    /\ pc' = [pc EXCEPT ![p] = "idle"]
    /\ UNCHANGED <<render, aggV, recv, postV, idx, stack, result, aggExprs, evalExprs, needEval, postOut>>

-----------------------------------------------------------------------------
(* extractPostAggrExprs *)

\* Mutant: the visitor outlives the call and keeps its count.
CallExtractPostAggrExprsStale(p) ==
    /\ pc[p] = "idle"
    /\ evalExprs' = [evalExprs EXCEPT ![p] = <<>>]
    /\ needEval' = [needEval EXCEPT ![p] = FALSE]
    /\ idx' = [idx EXCEPT ![p] = 1]
    /\ pc' = [pc EXCEPT ![p] = "postLoop"]
    /\ UNCHANGED <<render, aggV, recv, postV, stack, result, aggExprs, aggOut, postOut>>

CallExtractPostAggrExprs(p) ==
    /\ pc[p] = "idle"
    /\ postV' = [postV EXCEPT ![p] = [count |-> 0]]
    /\ evalExprs' = [evalExprs EXCEPT ![p] = <<>>]
    /\ needEval' = [needEval EXCEPT ![p] = FALSE]
    /\ idx' = [idx EXCEPT ![p] = 1]
    /\ pc' = [pc EXCEPT ![p] = "postLoop"]
    /\ UNCHANGED <<render, aggV, recv, stack, result, aggExprs, aggOut, postOut>>

\* Mutant: extract has a value receiver, so every render expression starts
\* from the count v had when the loop began.
PostExtractValueReceiver(p) ==
    /\ pc[p] = "postLoop"
    /\ idx[p] <= Len(render[p])
    /\ postV' = [postV EXCEPT ![p] = [count |-> 0]]
    /\ stack' = [stack EXCEPT ![p] = <<Frame(render[p][idx[p]])>>]
    /\ result' = [result EXCEPT ![p] = Nil]
    /\ pc' = [pc EXCEPT ![p] = "postWalk"]
    /\ UNCHANGED <<render, aggV, recv, idx, aggExprs, evalExprs, needEval, aggOut, postOut>>

\* v.extract(expr): the pointer receiver is v itself; WalkExpr starts.
PostExtract(p) ==
    /\ pc[p] = "postLoop"
    /\ idx[p] <= Len(render[p])
    /\ stack' = [stack EXCEPT ![p] = <<Frame(render[p][idx[p]])>>]
    /\ result' = [result EXCEPT ![p] = Nil]
    /\ pc' = [pc EXCEPT ![p] = "postWalk"]
    /\ UNCHANGED <<render, aggV, recv, postV, idx, aggExprs, evalExprs, needEval, aggOut, postOut>>

PostVisitPre(p) ==
    /\ pc[p] = "postWalk"
    /\ stack[p] # <<>>
    /\ Top(stack[p]).phase = "pre"
    /\ LET w == AfterVisitPre(stack[p], TRUE, Top(stack[p]).expr)
       IN /\ stack' = [stack EXCEPT ![p] = w.stack]
          /\ result' = [result EXCEPT ![p] = w.result]
    /\ UNCHANGED <<render, pc, aggV, recv, postV, idx, aggExprs, evalExprs, needEval, aggOut, postOut>>

\* Mutant: the count is not advanced.
PostVisitPostNoIncrement(count, expr) ==
    IF ~IsHolder(expr)
    THEN [newExpr |-> expr, count |-> count]
    ELSE [newExpr |-> NewOrdinalReference(count), count |-> count]

\* Mutant: the count is advanced before the reference is made.
PostVisitPostPreIncrement(count, expr) ==
    IF ~IsHolder(expr)
    THEN [newExpr |-> expr, count |-> count]
    ELSE [newExpr |-> NewOrdinalReference(count + 1), count |-> count + 1]

\* postAggExprVisitor.VisitPost: [newExpr, count] for the visitor's count.
PostVisitPostOf(count, expr) ==
    IF ~IsHolder(expr)
    THEN [newExpr |-> expr, count |-> count]
    ELSE [newExpr |-> NewOrdinalReference(count), count |-> count + 1]

\* Mutant: one visitor, that of goroutine 1, serves every goroutine.
PostVisitPostShared(p) ==
    /\ pc[p] = "postWalk"
    /\ stack[p] # <<>>
    /\ Top(stack[p]).phase = "post"
    /\ LET r == PostVisitPostOf(postV[1].count, Top(stack[p]).expr)
           w == AfterVisitPost(stack[p], r.newExpr)
       IN /\ postV' = [postV EXCEPT ![1].count = r.count]
          /\ stack' = [stack EXCEPT ![p] = w.stack]
          /\ result' = [result EXCEPT ![p] = w.result]
    /\ UNCHANGED <<render, pc, aggV, recv, idx, aggExprs, evalExprs, needEval, aggOut, postOut>>

PostVisitPost(p) ==
    /\ pc[p] = "postWalk"
    /\ stack[p] # <<>>
    /\ Top(stack[p]).phase = "post"
    /\ LET r == PostVisitPostOf(postV[p].count, Top(stack[p]).expr)
           w == AfterVisitPost(stack[p], r.newExpr)
       IN /\ postV' = [postV EXCEPT ![p].count = r.count]
          /\ stack' = [stack EXCEPT ![p] = w.stack]
          /\ result' = [result EXCEPT ![p] = w.result]
    /\ UNCHANGED <<render, pc, aggV, recv, idx, aggExprs, evalExprs, needEval, aggOut, postOut>>

\* Mutant: needEval = !ok, so the last render expression alone decides.
NeedEvalLastOnly(need, res) == res.kind # "IndexedVar"

\* if _, ok := result.(*parser.IndexedVar); !ok { needEval = true }
NeedEvalAfter(need, res) == IF res.kind # "IndexedVar" THEN TRUE ELSE need

PostExtractReturn(p) ==
    /\ pc[p] = "postWalk"
    /\ stack[p] = <<>>
    /\ needEval' = [needEval EXCEPT ![p] = NeedEvalAfter(needEval[p], result[p])]
    /\ evalExprs' = [evalExprs EXCEPT ![p] = Append(evalExprs[p], result[p])]
    /\ idx' = [idx EXCEPT ![p] = idx[p] + 1]
    /\ result' = [result EXCEPT ![p] = Nil]
    /\ pc' = [pc EXCEPT ![p] = "postLoop"]
    /\ UNCHANGED <<render, aggV, recv, postV, stack, aggExprs, aggOut, postOut>>

PostReturn(p) ==
    /\ pc[p] = "postLoop"
    /\ idx[p] > Len(render[p])
    /\ postOut' = [postOut EXCEPT ![p] =
           [set |-> TRUE, evalExprs |-> evalExprs[p], needEval |-> needEval[p]]]
    /\ pc' = [pc EXCEPT ![p] = "idle"]
    /\ UNCHANGED <<render, aggV, recv, postV, idx, stack, result, aggExprs, evalExprs, needEval, aggOut>>

-----------------------------------------------------------------------------
Step(p) ==
    \/ CallExtractAggExprs(p)
    \/ AggExtract(p)
    \/ AggVisitPre(p)
    \/ AggVisitPost(p)
    \/ AggExtractReturn(p)
    \/ AggStamp(p)
    \/ AggReturn(p)
    \/ CallExtractPostAggrExprs(p)
    \/ PostExtract(p)
    \/ PostVisitPre(p)
    \/ PostVisitPost(p)
    \/ PostExtractReturn(p)
    \/ PostReturn(p)

\* One planner goroutine making calls one after another.
Next == \E p \in SeqProcs : Step(p)

Spec == Init /\ [][Next]_vars

\* Two planner goroutines, each on its own render list, interleaved.
NextConc == \E p \in Procs : Step(p)

SpecConc == InitConc /\ [][NextConc]_vars

-----------------------------------------------------------------------------
(* What the render list says, read off the trees alone: the holders in      *)
(* left-to-right order, and the entry and the rewriting each one calls for. *)

RECURSIVE MarkersIn(_), MarkersInSeq(_)
MarkersIn(e) ==
    CASE IsHolder(e)           -> <<e>>
      [] e.kind = "BinaryExpr" -> MarkersIn(e.Left) \o MarkersIn(e.Right)
      [] e.kind = "FuncExpr"   -> MarkersInSeq(e.Exprs)
      [] OTHER                 -> <<>>
MarkersInSeq(es) ==
    IF es = <<>> THEN <<>> ELSE MarkersIn(Head(es)) \o MarkersInSeq(Tail(es))

AllMarkers(p) == MarkersInSeq(render[p])

EqualFold(a, b) ==
    /\ Len(a) = Len(b)
    /\ \A i \in 1..Len(a) : ToUpperChar(a[i]) = ToUpperChar(b[i])

KnownName(name) == \E k \in DOMAIN AggregatorSpec_Func_value : EqualFold(k, name)

KindOfName(name) ==
    AggregatorSpec_Func_value[CHOOSE k \in DOMAIN AggregatorSpec_Func_value : EqualFold(k, name)]

IsCall(m) == m.expr.kind = "FuncExpr"

ClassFunc(m) ==
    IF IsCall(m) THEN (IF KnownName(m.expr.Func) THEN KindOfName(m.expr.Func) ELSE 0)
    ELSE AggregatorSpec_IDENT

ClassDistinct(m) == IsCall(m) /\ m.expr.Type = "DISTINCT"

IsOrdinal(e) == e.kind = "IndexedVar"

\* The holders of o paired with the ordinals that stand in their places in r.
RECURSIVE Replaced(_, _), ReplacedSeq(_, _)
Replaced(o, r) ==
    CASE IsHolder(o) -> IF IsOrdinal(r) THEN <<[m |-> o, i |-> r.Idx]>> ELSE <<>>
      [] o.kind = "BinaryExpr" /\ r.kind = "BinaryExpr" ->
             Replaced(o.Left, r.Left) \o Replaced(o.Right, r.Right)
      [] o.kind = "FuncExpr" /\ r.kind = "FuncExpr" /\ Len(o.Exprs) = Len(r.Exprs) ->
             ReplacedSeq(o.Exprs, r.Exprs)
      [] OTHER -> <<>>
ReplacedSeq(os, rs) ==
    IF os = <<>> \/ rs = <<>> THEN <<>>
    ELSE Replaced(Head(os), Head(rs)) \o ReplacedSeq(Tail(os), Tail(rs))

\* r with every ordinal i put back to the i-th holder of ms (counted from 0).
RECURSIVE SubstBack(_, _), SubstBackSeq(_, _)
SubstBack(r, ms) ==
    CASE IsOrdinal(r) -> IF r.Idx + 1 \in 1..Len(ms) THEN ms[r.Idx + 1] ELSE r
      [] r.kind = "BinaryExpr" ->
             [r EXCEPT !.Left = SubstBack(r.Left, ms), !.Right = SubstBack(r.Right, ms)]
      [] r.kind = "FuncExpr" -> [r EXCEPT !.Exprs = SubstBackSeq(r.Exprs, ms)]
      [] OTHER -> r
SubstBackSeq(rs, ms) ==
    IF rs = <<>> THEN <<>> ELSE <<SubstBack(Head(rs), ms)>> \o SubstBackSeq(Tail(rs), ms)

\* e with its holders numbered from n on, left to right.
RECURSIVE Renumbered(_, _), RenumberedSeq(_, _)
Renumbered(e, n) ==
    CASE IsHolder(e) -> IndexedVar(n)
      [] e.kind = "BinaryExpr" ->
             [e EXCEPT !.Left = Renumbered(e.Left, n),
                       !.Right = Renumbered(e.Right, n + Len(MarkersIn(e.Left)))]
      [] e.kind = "FuncExpr" -> [e EXCEPT !.Exprs = RenumberedSeq(e.Exprs, n)]
      [] OTHER -> e
RenumberedSeq(es, n) ==
    IF es = <<>> THEN <<>>
    ELSE <<Renumbered(Head(es), n)>> \o RenumberedSeq(Tail(es), n + Len(MarkersIn(Head(es))))

AloneAgg(r) ==
    LET ms == MarkersInSeq(r)
    IN [i \in 1..Len(ms) |-> [Func |-> ClassFunc(ms[i]), Distinct |-> ClassDistinct(ms[i]), ColIdx |-> i - 1]]

AlonePost(r) ==
    [set |-> TRUE, evalExprs |-> RenumberedSeq(r, 0),
     needEval |-> \E j \in 1..Len(r) : ~IsHolder(r[j])]

\* p made a call that returned / p is back in its caller after such a call.
AggReturned(p) == aggOut[p].set
PostReturned(p) == postOut[p].set
AggDone(p) == pc[p] = "idle" /\ AggReturned(p)
PostDone(p) == pc[p] = "idle" /\ PostReturned(p)

\* The call of p is at its return statement.
AtAggReturn(p) == pc[p] = "aggRet"
AtPostReturn(p) == pc[p] = "postLoop" /\ idx[p] > Len(render[p])

-----------------------------------------------------------------------------
\* C1: extractAggExprs returns exactly one entry per holder of the render
\* list, k in all, and the entry at position i (from 0) has ColIdx = i: the
\* numbering runs on across render expressions.
C1_ColIdxIsFlattenedPosition ==
    \A p \in Procs : AggDone(p) =>
        /\ Len(aggOut[p].aggExprs) = Len(AllMarkers(p))
        /\ \A i \in 1..Len(aggOut[p].aggExprs) : aggOut[p].aggExprs[i].ColIdx = i - 1

\* A call returned for a list whose second render expression holds two
\* holders and follows one that holds a holder too.
C1_Witness ==
    /\ AggDone(1)
    /\ Len(render[1]) >= 2
    /\ Len(MarkersIn(render[1][1])) >= 1
    /\ Len(MarkersIn(render[1][2])) >= 2
    /\ aggOut[1].aggExprs[3].ColIdx = 2

\* C2: the holder that extractPostAggrExprs replaced by ordinal i is the one
\* entry i of extractAggExprs describes: every holder was replaced, and the
\* entry at its ordinal has the holder's function kind and distinct flag.
C2_OrdinalMatchesSpecEntry ==
    \A p \in Procs : (AggDone(p) /\ PostDone(p)) =>
        LET pairs == ReplacedSeq(render[p], postOut[p].evalExprs)
            specs == aggOut[p].aggExprs
        IN /\ Len(pairs) = Len(AllMarkers(p))
           /\ \A n \in 1..Len(pairs) :
                  /\ pairs[n].i + 1 \in 1..Len(specs)
                  /\ specs[pairs[n].i + 1].ColIdx = pairs[n].i
                  /\ specs[pairs[n].i + 1].Func = ClassFunc(pairs[n].m)
                  /\ specs[pairs[n].i + 1].Distinct = ClassDistinct(pairs[n].m)

\* Both calls returned for a list with holders of different kinds in more
\* than one render expression, one of them below a binary expression.
C2_Witness ==
    /\ AggDone(1) /\ PostDone(1)
    /\ Len(render[1]) >= 2
    /\ render[1][2].kind = "BinaryExpr"
    /\ LET ms == AllMarkers(1)
       IN /\ Len(ms) >= 3
          /\ ClassFunc(ms[1]) # ClassFunc(ms[2])
          /\ ClassFunc(ms[2]) # ClassFunc(ms[3])

\* C3: needEval is false exactly when every rewritten render expression is a
\* bare ordinal reference.
C3_NeedEvalIffNotAllBare ==
    \A p \in Procs : PostDone(p) =>
        (postOut[p].needEval = FALSE
            <=> \A j \in 1..Len(postOut[p].evalExprs) : IsOrdinal(postOut[p].evalExprs[j]))

\* A call returned true for a list that starts with a holder wrapped in
\* '+ 1' and goes on with a bare holder.
C3_Witness ==
    /\ PostDone(1)
    /\ postOut[1].needEval
    /\ Len(postOut[1].evalExprs) = 2
    /\ postOut[1].evalExprs[1] = BinaryExpr("+", IndexedVar(0), NumVal(1))
    /\ postOut[1].evalExprs[2] = IndexedVar(1)

C5_EntryClassifiedByInner ==
    \A p \in Procs : pc[p] = "aggWalk" =>
        LET ms == MarkersIn(render[p][idx[p]])
            es == recv[p].exprs
        IN /\ Len(es) <= Len(ms)
           /\ \A i \in 1..Len(es) :
                  IF IsCall(ms[i])
                  THEN /\ KnownName(ms[i].expr.Func) => es[i].Func = KindOfName(ms[i].expr.Func)
                       /\ es[i].Distinct = (ms[i].expr.Type = "DISTINCT")
                  ELSE /\ es[i].Func = AggregatorSpec_IDENT
                       /\ es[i].Distinct = FALSE

\* The walk of one render expression has emitted the entry of
\* Sum(DISTINCT k + v), a name in mixed case, and an IDENT entry.
C5_Witness ==
    /\ pc[1] = "aggWalk"
    /\ \E i, j \in 1..Len(recv[1].exprs) :
           /\ recv[1].exprs[i] = [Func |-> 10, Distinct |-> TRUE, ColIdx |-> 0]
           /\ recv[1].exprs[j] = [Func |-> AggregatorSpec_IDENT, Distinct |-> FALSE, ColIdx |-> 0]

\* C6: extractAggExprs never fails; a holder of a call whose name the
\* registry does not hold yields the entry (zero kind, the call's distinct
\* flag) at its own place in the ColIdx sequence, and every other holder's
\* entry is the one it would have anyway, at its own place.
C6_UnknownNameIsZeroKind ==
    \A p \in Procs :
        /\ pc[p] # "panic"
        /\ AggDone(p) =>
              LET ms == AllMarkers(p)
                  specs == aggOut[p].aggExprs
              IN \A i \in 1..Len(ms) :
                     /\ i <= Len(specs)
                     /\ IF IsCall(ms[i]) /\ ~KnownName(ms[i].expr.Func)
                        THEN specs[i] = [Func |-> 0, Distinct |-> (ms[i].expr.Type = "DISTINCT"),
                                         ColIdx |-> i - 1]
                        ELSE specs[i] = [Func |-> ClassFunc(ms[i]), Distinct |-> ClassDistinct(ms[i]),
                                         ColIdx |-> i - 1]

\* A call returned for a list with a holder of bogus(DISTINCT v) between two
\* holders of known kinds.
C6_Witness ==
    /\ AggDone(1)
    /\ LET ms == AllMarkers(1)
       IN /\ Len(ms) = 3
          /\ IsCall(ms[2]) /\ ms[2].expr.Func = Name_bogus
          /\ IsCall(ms[1]) /\ KnownName(ms[1].expr.Func)
          /\ IsCall(ms[3]) /\ KnownName(ms[3].expr.Func)
    /\ aggOut[1].aggExprs[2] = [Func |-> 0, Distinct |-> TRUE, ColIdx |-> 1]

\* C7: a call that is about to return, made after an earlier call of the
\* same function on the same render list returned, returns what the earlier
\* call returned.
C7_SecondCallSameOutput ==
    \A p \in Procs :
        /\ (AtAggReturn(p) /\ AggReturned(p)) => aggExprs[p] = aggOut[p].aggExprs
        /\ (AtPostReturn(p) /\ PostReturned(p)) =>
               /\ evalExprs[p] = postOut[p].evalExprs
               /\ needEval[p] = postOut[p].needEval

\* A second extractPostAggrExprs call is about to return, after calls of
\* both functions returned, for a list with two holders or more.
C7_Witness ==
    /\ AtPostReturn(1)
    /\ PostReturned(1) /\ AggReturned(1)
    /\ postV[1].count >= 2
    /\ Len(render[1]) >= 2

\* C8: with two goroutines interleaved, each call returns what the render
\* list of its own goroutine calls for when walked alone.
C8_InterleavingKeepsOutputs ==
    \A p \in Procs :
        /\ AggDone(p) => aggOut[p].aggExprs = AloneAgg(render[p])
        /\ PostDone(p) => postOut[p] = AlonePost(render[p])

\* Both goroutines are in the middle of a walk, each having substituted a
\* holder already, on different render lists, and both have returned from
\* an earlier call that overlapped the other's.
C8_Witness ==
    /\ render[1] # render[2]
    /\ pc[1] = "postWalk" /\ pc[2] = "postWalk"
    /\ postV[1].count >= 1 /\ postV[2].count >= 1
    /\ PostReturned(1) /\ PostReturned(2)
    /\ AggReturned(1) /\ AggReturned(2)

\* C9: a holder is a leaf of both walks and every other node is descended
\* into: no frame is ever opened below a holder, the walk of a render
\* expression by the extractor ends with one entry per holder of it, and the
\* rewriter's count, between render expressions, is the number of holders of
\* the render expressions walked so far.
C9_MarkerIsLeaf ==
    \A p \in Procs :
        /\ \A j \in 2..Len(stack[p]) : ~IsHolder(stack[p][j - 1].expr)
        /\ (pc[p] = "aggWalk" /\ stack[p] = <<>>) =>
               Len(recv[p].exprs) = Len(MarkersIn(render[p][idx[p]]))
        /\ pc[p] = "postLoop" =>
               postV[p].count = Len(MarkersInSeq(SubSeq(render[p], 1, idx[p] - 1)))

\* The rewriter has walked abs(SUM(DISTINCT k + v)) + (k + v): two holders
\* with compound inner expressions, one of them two levels down.
C9_Witness ==
    /\ pc[1] = "postLoop"
    /\ idx[1] = 2
    /\ render[1][1] =
           BinaryExpr("+",
               FuncExpr(Name_abs, "",
                   <<aggregateFuncHolder(FuncExpr(Name_Sum, "DISTINCT", <<BinaryExpr("+", ColK, ColV)>>))>>),
               aggregateFuncHolder(BinaryExpr("+", ColK, ColV)))
    /\ postV[1].count = 2

\* C10: the rewritten list has the length of the render list, and putting
\* the i-th holder of the render list back for every ordinal i gives back
\* each render expression.
C10_RewriteChangesOnlyMarkers ==
    \A p \in Procs : PostDone(p) =>
        /\ Len(postOut[p].evalExprs) = Len(render[p])
        /\ \A j \in 1..Len(render[p]) :
               SubstBack(postOut[p].evalExprs[j], AllMarkers(p)) = render[p][j]

\* A call returned for a list whose second render expression has a literal
\* to the left of a holder, after a first one with a holder.
C10_Witness ==
    /\ PostDone(1)
    /\ Len(render[1]) = 2
    /\ IsHolder(render[1][1])
    /\ postOut[1].evalExprs[2] = BinaryExpr("+", NumVal(1), IndexedVar(1))

====
